---- MODULE Spec2Model ----
(***************************************************************************)
(* A model of the InDesign page generator (gen.py) and of the custom       *)
(* edition tool (custom_edition.py).                                       *)
(*                                                                         *)
(* Python strings are TLA+ strings: s \o t is concatenation, Len(s) the    *)
(* length and SubSeq(s, i, i) the one-character string at position i.      *)
(***************************************************************************)
EXTENDS Integers, Sequences, FiniteSets, TLC

VARIABLES
    \* gen.py, date formatting
    edition_date,       \* the datetime handed to the formatters: [year, month, day]
    sat_spans_weekend,  \* format_page_date's keyword argument
    page_date,          \* what format_page_date returned ("" before the call)
    file_date,          \* what format_file_date returned ("" before the call)
    \* custom_edition.py
    custom_spec,        \* the text read from standard input
    masters_json,       \* the file masters.json: master name -> [slug, spread]
    pages_json,         \* the file pages.json: desk -> page set name -> page list
    ce_pc,              \* where main is: "start", "loop", "done" or "raised"
    exception,          \* the exception that ended main ("" when none)
    title,              \* main's title
    spec_lines,         \* main's spec_lines after the title is taken off
    line_idx,           \* how many of spec_lines the for loop has consumed
    reject,             \* main's reject list
    accept,             \* main's accept list
    stdout,             \* the lines main printed
    \* gen.py, page specifications
    masters,            \* the module global `masters` of gen.py
    masters_dict,       \* the argument construct_page_specifications was given
    detailed_dict,      \* what construct_page_specifications returned
    \* gen.py, the generation loop and the host application
    to_generate,        \* the pages the loop of __main__ goes through, in order
    page_idx,           \* how many of them the loop has taken
    step_idx,           \* how many statements of create_from_master have run
    gen_pc,             \* "loop", "page" (in create_from_master), "exited" or "finished"
    host_log,           \* the commands sent to InDesign, in order
    open_documents,     \* InDesign: how many documents are open
    frames,             \* InDesign: label -> contents of the active document's frames
    saved,              \* InDesign: the documents saved, with their frames
    directories         \* the edition directories format_file_path made

dateVars == <<edition_date, sat_spans_weekend, page_date, file_date>>
editionVars == <<custom_spec, masters_json, pages_json, ce_pc, exception, title,
                 spec_lines, line_idx, reject, accept, stdout>>
constructVars == <<masters, masters_dict, detailed_dict>>
loopVars == <<to_generate, page_idx, step_idx, gen_pc, host_log>>
hostVars == <<open_documents, frames, saved, directories>>
genVars == <<loopVars, hostVars>>

vars == <<dateVars, editionVars, constructVars, genVars>>

-----------------------------------------------------------------------------
(* Bounds of the model *)

\* the first year of the dates that are formatted
FirstYear == 2015
\* how many consecutive years of dates are formatted
NumYears == 8
\* the largest number of lines of a custom edition text
MaxLines == 3
\* the largest number of pages generated in one run
MaxPages == 2

-----------------------------------------------------------------------------
(* Characters and numbers *)

DIGITS == "0123456789"

\* s[i] of a Python string
CharAt(s, i) == SubSeq(s, i, i)

IsDigit(c) == \E k \in 1..10 : CharAt(DIGITS, k) = c

DigitChar(n) == CharAt(DIGITS, n + 1)

\* str(n) of a non-negative int, as in f'{saturday.year}'
RECURSIVE str(_)
str(n) == IF n < 10 THEN DigitChar(n) ELSE str(n \div 10) \o DigitChar(n % 10)

\* strftime's %d, %m and %y: without the zero-padding
zfill2_unpadded(n) == str(n)

\* strftime's %d, %m and %y: two digits, zero-padded
zfill2(n) == IF n < 10 THEN "0" \o str(n) ELSE str(n)

-----------------------------------------------------------------------------
(* datetime: the calendar *)

\* strftime's %B
MONTHNAMES == <<"January", "February", "March", "April", "May", "June", "July",
                "August", "September", "October", "November", "December">>

\* strftime's %A, indexed by isoweekday()
DAYNAMES == <<"Monday", "Tuesday", "Wednesday", "Thursday", "Friday",
              "Saturday", "Sunday">>

is_leap(year) == year % 4 = 0 /\ (year % 100 # 0 \/ year % 400 = 0)

days_in_month(year, month) ==
    IF month = 2 THEN (IF is_leap(year) THEN 29 ELSE 28)
    ELSE IF month \in {4, 6, 9, 11} THEN 30 ELSE 31

\* number of days before January 1st of year
days_before_year(year) ==
    LET y == year - 1 IN y * 365 + (y \div 4) - (y \div 100) + (y \div 400)

RECURSIVE days_before_month(_, _)
days_before_month(year, month) ==
    IF month = 1 THEN 0
    ELSE days_before_month(year, month - 1) + days_in_month(year, month - 1)

\* datetime.toordinal(): 0001-01-01 is day 1
toordinal(d) == days_before_year(d.year) + days_before_month(d.year, d.month) + d.day

\* datetime.isoweekday(): Monday is 1, Sunday is 7
isoweekday(d) == LET r == toordinal(d) % 7 IN IF r = 0 THEN 7 ELSE r

\* d + timedelta(1)
add_one_day(d) ==
    IF d.day < days_in_month(d.year, d.month)
    THEN [d EXCEPT !.day = d.day + 1]
    ELSE IF d.month < 12
    THEN [year |-> d.year, month |-> d.month + 1, day |-> 1]
    ELSE [year |-> d.year + 1, month |-> 1, day |-> 1]

\* the datetimes the formatters are given
Dates ==
    { [year |-> y, month |-> m, day |-> dd] :
        y \in FirstYear..(FirstYear + NumYears - 1), m \in 1..12, dd \in 1..31 }

ValidDates == { d \in Dates : d.day <= days_in_month(d.year, d.month) }

-----------------------------------------------------------------------------
(* gen.py: the formatters *)

\* re.sub(r' 0(\d)', r' \1', s) from position i on: leftmost, non-overlapping
RECURSIVE re_sub_from(_, _)
re_sub_from(s, i) ==
    IF i > Len(s) THEN ""
    ELSE IF /\ i + 2 <= Len(s)
            /\ CharAt(s, i) = " "
            /\ CharAt(s, i + 1) = "0"
            /\ IsDigit(CharAt(s, i + 2))
         THEN " " \o CharAt(s, i + 2) \o re_sub_from(s, i + 3)
         ELSE CharAt(s, i) \o re_sub_from(s, i + 1)

remove_zero_padded_dates(date_string) == re_sub_from(date_string, 1)

\* the elif of _format_page_date_for_weekend
spans_month(saturday, sunday) == saturday.month # sunday.month

format_page_date_for_weekend(d) ==
    LET saturday == d
        sunday == add_one_day(d)
    IN  IF saturday.year # sunday.year
        THEN "Saturday/Sunday\n" \o "December 31-January 1 "
                 \o str(saturday.year) \o "-" \o str(sunday.year)
        ELSE IF spans_month(saturday, sunday)
        THEN remove_zero_padded_dates(
                 "Saturday/Sunday\n"
                 \o MONTHNAMES[saturday.month] \o " " \o zfill2(saturday.day)
                 \o "-"
                 \o MONTHNAMES[sunday.month] \o " " \o zfill2(sunday.day)
                 \o " " \o str(sunday.year))
        ELSE remove_zero_padded_dates(
                 "Saturday/Sunday\n"
                 \o MONTHNAMES[saturday.month] \o " " \o zfill2(saturday.day)
                 \o "-"
                 \o zfill2(sunday.day) \o " " \o str(sunday.year))

\* a format_page_date that joins the weekend whatever the keyword says
format_page_date_always_joins(d, spans) ==
    IF isoweekday(d) = 6
    THEN format_page_date_for_weekend(d)
    ELSE remove_zero_padded_dates(
             DAYNAMES[isoweekday(d)] \o "\n" \o MONTHNAMES[d.month] \o " "
             \o zfill2(d.day) \o " " \o str(d.year))

format_page_date(d, spans) ==
    IF spans /\ isoweekday(d) = 6
    THEN format_page_date_for_weekend(d)
    ELSE remove_zero_padded_dates(
             DAYNAMES[isoweekday(d)] \o "\n" \o MONTHNAMES[d.month] \o " "
             \o zfill2(d.day) \o " " \o str(d.year))

format_file_date(d) == zfill2(d.day) \o zfill2(d.month) \o zfill2(d.year % 100)

-----------------------------------------------------------------------------
(* Python's str methods, as custom_edition.py uses them *)

\* str.isspace() of one character
IsSpace(c) == c \in {" ", "\t"}

\* s.split('\n')
RECURSIVE split_newline(_)
split_newline(s) ==
    IF \A i \in 1..Len(s) : CharAt(s, i) # "\n" THEN <<s>>
    ELSE LET i == CHOOSE k \in 1..Len(s) :
                      /\ CharAt(s, k) = "\n"
                      /\ \A j \in 1..(k - 1) : CharAt(s, j) # "\n"
         IN  <<SubSeq(s, 1, i - 1)>> \o split_newline(SubSeq(s, i + 1, Len(s)))

RECURSIVE lstrip(_)
lstrip(s) == IF s # "" /\ IsSpace(CharAt(s, 1)) THEN lstrip(Tail(s)) ELSE s

RECURSIVE rstrip(_)
rstrip(s) ==
    IF s # "" /\ IsSpace(CharAt(s, Len(s))) THEN rstrip(SubSeq(s, 1, Len(s) - 1)) ELSE s

strip(s) == lstrip(rstrip(s))

\* a startswith that skips leading whitespace first
startswith_after_lstrip(s, prefix) ==
    Len(lstrip(s)) >= Len(prefix) /\ SubSeq(lstrip(s), 1, Len(prefix)) = prefix

\* s.startswith(prefix)
startswith(s, prefix) == Len(s) >= Len(prefix) /\ SubSeq(s, 1, Len(prefix)) = prefix

\* the length of the run of non-whitespace characters s starts with
RECURSIVE token_len(_)
token_len(s) == IF s = "" \/ IsSpace(CharAt(s, 1)) THEN 0 ELSE 1 + token_len(Tail(s))

\* s.split(maxsplit=1): the first token, and what follows the whitespace after it
split_maxsplit_1(s) ==
    LET t == lstrip(s)
        n == token_len(t)
        rest == lstrip(SubSeq(t, n + 1, Len(t)))
    IN  IF n = 0 THEN <<>>
        ELSE IF rest = "" THEN <<SubSeq(t, 1, n)>>
        ELSE <<SubSeq(t, 1, n), rest>>

RECURSIVE digits_value(_)
digits_value(s) ==
    IF s = "" THEN 0
    ELSE 10 * digits_value(SubSeq(s, 1, Len(s) - 1))
             + (CHOOSE k \in 0..9 : DigitChar(k) = CharAt(s, Len(s)))

\* int(s): [ok |-> FALSE] stands for ValueError
int(s) ==
    LET signed == s # "" /\ CharAt(s, 1) \in {"+", "-"}
        body == IF signed THEN Tail(s) ELSE s
    IN  IF body # "" /\ \A i \in 1..Len(body) : IsDigit(CharAt(body, i))
        THEN [ok |-> TRUE,
              value |-> IF signed /\ CharAt(s, 1) = "-"
                        THEN 0 - digits_value(body) ELSE digits_value(body)]
        ELSE [ok |-> FALSE, value |-> 0]

-----------------------------------------------------------------------------
(* custom_edition.py: main *)

\* the first condition of the comprehension, with the comment sign looked for
\* after the leading whitespace
is_comment_lstripped(l) == startswith_after_lstrip(l, "#")

\* the first condition of the comprehension: l.startswith('#')
is_comment(l) == startswith(l, "#")

\* the conditions of the comprehension of main
survives(l) == ~is_comment(l) /\ strip(l) # ""

\* the lines of ls the comprehension of main keeps
RECURSIVE kept_lines(_)
kept_lines(ls) ==
    IF ls = <<>> THEN <<>>
    ELSE (IF survives(Head(ls)) THEN <<Head(ls)>> ELSE <<>>) \o kept_lines(Tail(ls))

\* the comprehension of main: [l.rstrip() for l in ... if ... if ...]
surviving_lines(text) ==
    LET kept == kept_lines(split_newline(text))
    IN  [i \in 1..Len(kept) |-> rstrip(kept[i])]

NOT_AN_INTEGER == "First item must be an integer page number"

not_in_masters(master_name) == master_name \o " is not in masters.json"

\* a main that adds the edition whatever was rejected
no_rejects_ignoring(rejected) == TRUE

\* `if reject: ... return` of main, negated: the edition is added
no_rejects(rejected) == rejected = <<>>

\* the list comprehension that builds page_dicts
page_dicts_of(accepted) ==
    [i \in 1..Len(accepted) |-> [master |-> accepted[i][3], page |-> accepted[i][2]]]

\* pages_inventory['Specials'][title] = page_dicts
with_special(pages, name, page_dicts) ==
    [pages EXCEPT !["Specials"] =
        [t \in DOMAIN @ \cup {name} |-> IF t = name THEN page_dicts ELSE @[t]]]

\* what main prints about the accepted lines
accepted_report(accepted) ==
    IF accepted = <<>> THEN <<>>
    ELSE <<"", "# These lines were interpreted OK:">>
             \o [i \in 1..Len(accepted) |-> accepted[i][1]]

RECURSIVE rejected_lines_report(_)
rejected_lines_report(rejected) ==
    IF rejected = <<>> THEN <<>>
    ELSE <<Head(rejected)[1], "--> " \o Head(rejected)[2], "">>
             \o rejected_lines_report(Tail(rejected))

\* what main prints about the rejected lines
rejected_report(rejected) ==
    <<"", "# These lines were rejected:">> \o rejected_lines_report(rejected)
        \o <<"# No special edition has been added to the generator.",
             "# Please fix the above problems and retry.">>

-----------------------------------------------------------------------------
(* gen.py: construct_page_specifications *)

\* every page of every page set of every desk
AllPages(pages) ==
    UNION { UNION { { pages[desk][name][i] : i \in 1..Len(pages[desk][name]) } :
                name \in DOMAIN pages[desk] } :
            desk \in DOMAIN pages }

\* the page lists with slug and spread added from the catalog `from`
Detailed(pages, from) ==
    [desk \in DOMAIN pages |->
        [name \in DOMAIN pages[desk] |->
            [i \in 1..Len(pages[desk][name]) |->
                LET page == pages[desk][name][i]
                IN  [master |-> page.master, page |-> page.page,
                     slug |-> from[page.master].slug,
                     spread |-> from[page.master].spread]]]]

Returned(value) == [raised |-> "", value |-> value]

Raised(name) == [raised |-> name, value |-> <<>>]

\* construct_page_specifications: line 293 reads the module global `masters`
construct_page_specifications(pages_dict, masters_arg, global_masters) ==
    IF AllPages(pages_dict) = {} THEN Returned(Detailed(pages_dict, <<>>))
    ELSE IF ~global_masters.bound THEN Raised("NameError")
    ELSE IF \E page \in AllPages(pages_dict) :
                page.master \notin DOMAIN global_masters.value
    THEN Raised("KeyError")
    ELSE Returned(Detailed(pages_dict, global_masters.value))

-----------------------------------------------------------------------------
(* gen.py: create_from_master and the commands it sends *)

\* strftime's %b
abbreviated_month(month) == SubSeq(MONTHNAMES[month], 1, 3)

\* the directory format_file_path makes, below pages_root
edition_directory(d) ==
    remove_zero_padded_dates(
        str(d.year) \o "-" \o zfill2(d.month) \o "-" \o zfill2(d.day) \o " "
        \o DAYNAMES[isoweekday(d)] \o " " \o abbreviated_month(d.month) \o " "
        \o zfill2(d.day))

\* the path format_file_path returns, below pages_root
format_file_path(d, page_number, slug, spread) ==
    edition_directory(d) \o "/"
    \o (IF spread THEN str(page_number) \o "-" \o str(page_number + 1)
        ELSE str(page_number))
    \o "_" \o slug \o "_" \o format_file_date(d) \o ".indd"

\* a create_from_master that saves before it sets the page numbers
create_from_master_saving_early(spread) ==
    <<"open_master", "apply_master", "set_date_on_page", "save_file">>
    \o (IF spread THEN <<"set_left_page_number", "set_right_page_number">>
        ELSE <<"set_single_page_number">>)
    \o <<"override_master_items", "close_active_document">>

\* the statements of create_from_master, in order; set_spread_page_numbers is its
\* two set_frame_contents calls
create_from_master(spread) ==
    <<"open_master", "apply_master", "set_date_on_page">>
    \o (IF spread THEN <<"set_left_page_number", "set_right_page_number">>
        ELSE <<"set_single_page_number">>)
    \o <<"override_master_items", "save_file", "close_active_document">>

\* a command sent to InDesign
Command(op, label, text) == [op |-> op, label |-> label, text |-> text]

\* set_frame_contents(frame_name, text)
set_frame_contents(frame_name, text) == Command("set contents", frame_name, text)

\* the command the statement of create_from_master sends for the page
command_of(statement, page, d) ==
    CASE statement = "open_master" -> Command("open", "", "master file")
      [] statement = "apply_master" ->
             Command(IF page.spread THEN "make new spread with master"
                     ELSE "set applied master of page 1", "", page.master)
      [] statement = "set_date_on_page" ->
             set_frame_contents("Edition date", format_page_date(d, TRUE))
      [] statement = "set_single_page_number" ->
             set_frame_contents("Page number", str(page.page))
      [] statement = "set_left_page_number" ->
             set_frame_contents("L-Page number", str(page.page))
      [] statement = "set_right_page_number" ->
             set_frame_contents("R-Page number", str(page.page + 1))
      [] statement = "override_master_items" ->
             Command("override master items", "", IF page.spread THEN "2 3" ELSE "1")
      [] statement = "save_file" ->
             Command("lock Furniture and save", "",
                     format_file_path(d, page.page, page.slug, page.spread))
      [] statement = "close_active_document" -> Command("close saving yes", "", "")

FrameLabels == {"Edition date", "Page number", "L-Page number", "R-Page number"}

\* the frames of a document that was just opened
EmptyFrames == [label \in FrameLabels |-> ""]

-----------------------------------------------------------------------------
(* The inputs of the model *)

\* two versions of masters.json
CatalogA ==
    [m \in {"News-Front", "Feat-Base-S"} |->
        IF m = "News-Front" THEN [slug |-> "Front", spread |-> FALSE]
        ELSE [slug |-> "Feat", spread |-> TRUE]]

CatalogB == [m \in {"News-Front"} |-> [slug |-> "Home", spread |-> TRUE]]

Catalogs == {CatalogA, CatalogB}

\* two versions of pages.json
PagesEmptySpecials ==
    [desk \in {"News", "Specials"} |->
        IF desk = "News"
        THEN [name \in {"Front"} |-> <<[master |-> "News-Front", page |-> 1]>>]
        ELSE <<>>]

PagesWithSpecial ==
    [desk \in {"News", "Specials"} |->
        IF desk = "News"
        THEN [name \in {"Front"} |-> <<[master |-> "News-Front", page |-> 1]>>]
        ELSE [name \in {"Test Edition"} |-> <<[master |-> "Feat-Base-S", page |-> 4]>>]]

PagesFiles == {PagesEmptySpecials, PagesWithSpecial}

\* the lines a custom edition text is made of
LinePool ==
    { " \t", "# note", "  # note", "Test Edition ", "1 News-Front",
      "8     Feat-Base-S", "\t3 News-Front", "-4 News-Front", "abc News-Front",
      "abc Other", "2 Other", "7" }

RECURSIVE join_newline(_)
join_newline(ls) ==
    IF ls = <<>> THEN ""
    ELSE IF Len(ls) = 1 THEN ls[1]
    ELSE ls[1] \o "\n" \o join_newline(Tail(ls))

Texts ==
    { join_newline(ls) : ls \in UNION { [1..n -> LinePool] : n \in 0..MaxLines } }

\* the pages of pages.json, with the details of masters.json
PagePool ==
    { [master |-> "News-Front", page |-> 1, slug |-> "Front", spread |-> FALSE],
      [master |-> "Feat-Base-S", page |-> 8, slug |-> "Feat", spread |-> TRUE] }

PageLists == UNION { [1..n -> PagePool] : n \in 0..MaxPages }

\* a Tuesday, a Saturday early in its month and the Saturday that ends 2016
GenDates ==
    { [year |-> 2018, month |-> 1, day |-> 23],
      [year |-> 2018, month |-> 1, day |-> 6],
      [year |-> 2016, month |-> 12, day |-> 31] }

Unbound == [bound |-> FALSE, value |-> <<>>]

Bound(catalog) == [bound |-> TRUE, value |-> catalog]

NotCalled == [raised |-> "not called", value |-> <<>>]

-----------------------------------------------------------------------------
(* The states before anything ran *)

DateIdle ==
    /\ edition_date = [year |-> 2018, month |-> 1, day |-> 23]
    /\ sat_spans_weekend = TRUE
    /\ page_date = ""
    /\ file_date = ""

EditionStart ==
    /\ ce_pc = "start"
    /\ exception = ""
    /\ title = ""
    /\ spec_lines = <<>>
    /\ line_idx = 0
    /\ reject = <<>>
    /\ accept = <<>>
    /\ stdout = <<>>

EditionIdle ==
    /\ custom_spec = ""
    /\ masters_json = CatalogA
    /\ pages_json = PagesEmptySpecials
    /\ EditionStart

ConstructIdle ==
    /\ masters = Unbound
    /\ masters_dict = <<>>
    /\ detailed_dict = NotCalled

GenStart ==
    /\ page_idx = 0
    /\ step_idx = 0
    /\ gen_pc = "loop"
    /\ host_log = <<>>
    /\ open_documents = 0
    /\ frames = EmptyFrames
    /\ saved = <<>>
    /\ directories = {}

GenIdle ==
    /\ to_generate = <<>>
    /\ GenStart

-----------------------------------------------------------------------------
(* The formatters applied to every date *)

InitDate ==
    /\ edition_date \in ValidDates
    /\ sat_spans_weekend \in BOOLEAN
    /\ page_date = ""
    /\ file_date = ""
    /\ EditionIdle
    /\ ConstructIdle
    /\ GenIdle

FormatPageDate ==
    /\ page_date = ""
    /\ page_date' = format_page_date(edition_date, sat_spans_weekend)
    /\ UNCHANGED <<edition_date, sat_spans_weekend, file_date>>
    /\ UNCHANGED <<editionVars, constructVars, genVars>>

FormatFileDate ==
    /\ file_date = ""
    /\ file_date' = format_file_date(edition_date)
    /\ UNCHANGED <<edition_date, sat_spans_weekend, page_date>>
    /\ UNCHANGED <<editionVars, constructVars, genVars>>

NextDate == FormatPageDate \/ FormatFileDate

SpecDate == InitDate /\ [][NextDate]_vars

-----------------------------------------------------------------------------
(* A custom edition is added, and the generator then reads pages.json *)

InitEdition ==
    /\ custom_spec \in Texts
    /\ masters_json \in Catalogs
    /\ pages_json \in PagesFiles
    /\ EditionStart
    /\ ConstructIdle
    /\ DateIdle
    /\ GenIdle

\* main, lines 30-41: the lines are filtered and the title is taken off
MainStart ==
    /\ ce_pc = "start"
    /\ LET survivors == surviving_lines(custom_spec)
       IN  IF survivors = <<>>
           THEN /\ ce_pc' = "raised"
                /\ exception' = "IndexError"
                /\ UNCHANGED <<title, spec_lines>>
           ELSE /\ ce_pc' = "loop"
                /\ title' = Head(survivors)
                /\ spec_lines' = Tail(survivors)
                /\ UNCHANGED exception
    /\ UNCHANGED <<custom_spec, masters_json, pages_json, line_idx, reject, accept,
                   stdout>>
    /\ UNCHANGED <<dateVars, constructVars, genVars>>

\* main, lines 43-56: one turn of the for loop
MainLoop ==
    /\ ce_pc = "loop"
    /\ line_idx < Len(spec_lines)
    /\ LET line == spec_lines[line_idx + 1]
           parts == split_maxsplit_1(line)
       IN  IF Len(parts) # 2
           THEN \* pn_str, master_name = ... cannot unpack
                /\ ce_pc' = "raised"
                /\ exception' = "ValueError"
                /\ UNCHANGED <<reject, accept>>
           ELSE LET pn_str == parts[1]
                    master_name == parts[2]
                IN  /\ UNCHANGED <<ce_pc, exception>>
                    /\ IF ~int(pn_str).ok
                       THEN /\ reject' = Append(reject, <<line, NOT_AN_INTEGER>>)
                            /\ UNCHANGED accept
                       ELSE IF master_name \notin DOMAIN masters_json
                       THEN /\ reject' =
                                  Append(reject, <<line, not_in_masters(master_name)>>)
                            /\ UNCHANGED accept
                       ELSE /\ accept' =
                                  Append(accept, <<line, int(pn_str).value, master_name>>)
                            /\ UNCHANGED reject
    /\ line_idx' = line_idx + 1
    /\ UNCHANGED <<custom_spec, masters_json, pages_json, title, spec_lines, stdout>>
    /\ UNCHANGED <<dateVars, constructVars, genVars>>

\* main, lines 58-83: the report, and the edition written to pages.json
MainReport ==
    /\ ce_pc = "loop"
    /\ line_idx = Len(spec_lines)
    /\ ce_pc' = "done"
    /\ IF no_rejects(reject)
       THEN /\ pages_json' = with_special(pages_json, title, page_dicts_of(accept))
            /\ stdout' = <<"# Found title: " \o title>> \o accepted_report(accept)
                  \o <<"", "# Added \"" \o title
                               \o "\" to page generator Specials section">>
       ELSE /\ stdout' = <<"# Found title: " \o title>> \o accepted_report(accept)
                  \o rejected_report(reject)
            /\ UNCHANGED pages_json
    /\ UNCHANGED <<custom_spec, masters_json, exception, title, spec_lines, line_idx,
                   reject, accept>>
    /\ UNCHANGED <<dateVars, constructVars, genVars>>

\* gen.py, line 381: masters = load_masters_json()
LoadMasters ==
    /\ ce_pc \in {"done", "raised"}
    /\ ~masters.bound
    /\ detailed_dict = NotCalled
    /\ masters' = Bound(masters_json)
    /\ UNCHANGED <<masters_dict, detailed_dict>>
    /\ UNCHANGED <<dateVars, editionVars, genVars>>

\* gen.py: construct_page_specifications(pages, arg), pages read from pages.json
ConstructPageSpecifications ==
    /\ ce_pc \in {"done", "raised"}
    /\ detailed_dict = NotCalled
    /\ \E arg \in Catalogs :
          /\ masters_dict' = arg
          /\ detailed_dict' = construct_page_specifications(pages_json, arg, masters)
    /\ UNCHANGED masters
    /\ UNCHANGED <<dateVars, editionVars, genVars>>

NextEdition ==
    \/ MainStart
    \/ MainLoop
    \/ MainReport
    \/ LoadMasters
    \/ ConstructPageSpecifications

SpecEdition == InitEdition /\ [][NextEdition]_vars

-----------------------------------------------------------------------------
(* The generation loop of gen.py *)

InitGen ==
    /\ edition_date \in GenDates
    /\ sat_spans_weekend = TRUE
    /\ page_date = ""
    /\ file_date = ""
    /\ EditionIdle
    /\ ConstructIdle
    /\ to_generate \in PageLists
    /\ GenStart

CurrentPage == to_generate[page_idx]

\* the statement of create_from_master that runs next
NextStatement == create_from_master(CurrentPage.spread)[step_idx + 1]

\* the statement runs: its command is sent and control moves on
Runs(statement) ==
    /\ gen_pc = "page"
    /\ step_idx < Len(create_from_master(CurrentPage.spread))
    /\ NextStatement = statement
    /\ host_log' = Append(host_log, command_of(statement, CurrentPage, edition_date))
    /\ step_idx' = step_idx + 1
    /\ UNCHANGED <<to_generate, page_idx, gen_pc>>
    /\ UNCHANGED <<dateVars, editionVars, constructVars>>

\* lines 395-397: the loop takes the next page and calls create_from_master
TakePage ==
    /\ gen_pc = "loop"
    /\ page_idx < Len(to_generate)
    /\ page_idx' = page_idx + 1
    /\ step_idx' = 0
    /\ gen_pc' = "page"
    /\ UNCHANGED <<to_generate, host_log, hostVars>>
    /\ UNCHANGED <<dateVars, editionVars, constructVars>>

\* the loop is over
EndLoop ==
    /\ gen_pc = "loop"
    /\ page_idx = Len(to_generate)
    /\ gen_pc' = "finished"
    /\ UNCHANGED <<to_generate, page_idx, step_idx, host_log, hostVars>>
    /\ UNCHANGED <<dateVars, editionVars, constructVars>>

OpenMaster ==
    /\ Runs("open_master")
    /\ open_documents' = open_documents + 1
    /\ frames' = EmptyFrames
    /\ UNCHANGED <<saved, directories>>

ApplyMaster ==
    /\ Runs("apply_master")
    /\ UNCHANGED hostVars

SetDateOnPage ==
    /\ Runs("set_date_on_page")
    /\ frames' = [frames EXCEPT !["Edition date"] = format_page_date(edition_date, TRUE)]
    /\ UNCHANGED <<open_documents, saved, directories>>

SetSinglePageNumber ==
    /\ Runs("set_single_page_number")
    /\ frames' = [frames EXCEPT !["Page number"] = str(CurrentPage.page)]
    /\ UNCHANGED <<open_documents, saved, directories>>

SetLeftPageNumber ==
    /\ Runs("set_left_page_number")
    /\ frames' = [frames EXCEPT !["L-Page number"] = str(CurrentPage.page)]
    /\ UNCHANGED <<open_documents, saved, directories>>

SetRightPageNumber ==
    /\ Runs("set_right_page_number")
    /\ frames' = [frames EXCEPT !["R-Page number"] = str(CurrentPage.page + 1)]
    /\ UNCHANGED <<open_documents, saved, directories>>

OverrideMasterItems ==
    /\ Runs("override_master_items")
    /\ UNCHANGED hostVars

\* format_file_path makes the edition directory, then save_file saves
SaveFile ==
    /\ Runs("save_file")
    /\ directories' = directories \cup {edition_directory(edition_date)}
    /\ saved' = Append(saved,
                       [path |-> format_file_path(edition_date, CurrentPage.page,
                                                  CurrentPage.slug, CurrentPage.spread),
                        page |-> page_idx,
                        frames |-> frames])
    /\ UNCHANGED <<open_documents, frames>>

CloseActiveDocument ==
    /\ Runs("close_active_document")
    /\ open_documents' = open_documents - 1
    /\ UNCHANGED <<frames, saved, directories>>

\* create_from_master returns to the loop
ReturnToLoop ==
    /\ gen_pc = "page"
    /\ step_idx = Len(create_from_master(CurrentPage.spread))
    /\ gen_pc' = "loop"
    /\ UNCHANGED <<to_generate, page_idx, step_idx, host_log, hostVars>>
    /\ UNCHANGED <<dateVars, editionVars, constructVars>>

\* run_applescript, lines 56-59: the command sent ends in an execution error
\* and the program exits
ExecutionError ==
    /\ gen_pc = "page"
    /\ step_idx < Len(create_from_master(CurrentPage.spread))
    /\ host_log' = Append(host_log, command_of(NextStatement, CurrentPage, edition_date))
    /\ gen_pc' = "exited"
    /\ UNCHANGED <<to_generate, page_idx, step_idx, hostVars>>
    /\ UNCHANGED <<dateVars, editionVars, constructVars>>

NextGen ==
    \/ TakePage
    \/ EndLoop
    \/ OpenMaster
    \/ ApplyMaster
    \/ SetDateOnPage
    \/ SetSinglePageNumber
    \/ SetLeftPageNumber
    \/ SetRightPageNumber
    \/ OverrideMasterItems
    \/ SaveFile
    \/ CloseActiveDocument
    \/ ReturnToLoop
    \/ ExecutionError

SpecGen == InitGen /\ [][NextGen]_vars

-----------------------------------------------------------------------------
(* Claims about the formatters *)

\* the weekday by Zeller's congruence, as an isoweekday number
ZellerIsoWeekday(d) ==
    LET m == IF d.month < 3 THEN d.month + 12 ELSE d.month
        y == IF d.month < 3 THEN d.year - 1 ELSE d.year
        k == y % 100
        j == y \div 100
        h == (d.day + ((13 * (m + 1)) \div 5) + k + (k \div 4) + (j \div 4) + 5 * j) % 7
    IN  ((h + 5) % 7) + 1

IsSaturday(d) == ZellerIsoWeekday(d) = 6

\* a number written in s starts at i with a zero that another digit follows
LeadingZeroAt(s, i) ==
    /\ i + 1 <= Len(s)
    /\ CharAt(s, i) = "0"
    /\ IsDigit(CharAt(s, i + 1))
    /\ (i = 1 \/ ~IsDigit(CharAt(s, i - 1)))

\* C1: no number in the string format_page_date returns has a leading zero
\* (the years of the model have four digits, so this is about the days).
C1_NoLeadingZero ==
    page_date # "" => \A i \in 1..Len(page_date) : ~LeadingZeroAt(page_date, i)

\* C2: a date that is not a joined Saturday gives "<Weekday>\n<Month> <day> <year>",
\* and the Saturday/Sunday form appears exactly for a Saturday with the join on.
C2_TwoLineForm ==
    page_date # "" =>
        /\ ~(sat_spans_weekend /\ IsSaturday(edition_date)) =>
               page_date = DAYNAMES[ZellerIsoWeekday(edition_date)] \o "\n"
                           \o MONTHNAMES[edition_date.month] \o " "
                           \o str(edition_date.day) \o " " \o str(edition_date.year)
        /\ (SubSeq(page_date, 1, 16) = "Saturday/Sunday\n")
               <=> (sat_spans_weekend /\ IsSaturday(edition_date))

C2_Witness ==
    /\ page_date = "Saturday\nJanuary 6 2018"
    /\ ~sat_spans_weekend

\* the last day of the month, from the table of month lengths
IsLastDayOfMonth(d) == d.day = days_in_month(d.year, d.month)

\* C3: the three forms of the joined weekend, the days written without padding
C3_WeekendForms ==
    (page_date # "" /\ sat_spans_weekend /\ IsSaturday(edition_date)) =>
        LET sat == edition_date
            nextMonth == IF sat.month = 12 THEN 1 ELSE sat.month + 1
        IN  page_date =
              IF sat.month = 12 /\ sat.day = 31
              THEN "Saturday/Sunday\nDecember 31-January 1 "
                       \o str(sat.year) \o "-" \o str(sat.year + 1)
              ELSE IF IsLastDayOfMonth(sat)
              THEN "Saturday/Sunday\n" \o MONTHNAMES[sat.month] \o " " \o str(sat.day)
                       \o "-" \o MONTHNAMES[nextMonth] \o " 1 " \o str(sat.year)
              ELSE "Saturday/Sunday\n" \o MONTHNAMES[sat.month] \o " " \o str(sat.day)
                       \o "-" \o str(sat.day + 1) \o " " \o str(sat.year)

\* the value of the two digits of s at i and i + 1 (-1 when they are not digits)
DigitValue(c) == IF IsDigit(c) THEN (CHOOSE k \in 0..9 : DigitChar(k) = c) ELSE -1

TwoDigitsAt(s, i) ==
    IF DigitValue(CharAt(s, i)) < 0 \/ DigitValue(CharAt(s, i + 1)) < 0 THEN -1
    ELSE 10 * DigitValue(CharAt(s, i)) + DigitValue(CharAt(s, i + 1))

\* C4: format_file_date returns six digits: day, month, year within the century
C4_FileToken ==
    file_date # "" =>
        /\ Len(file_date) = 6
        /\ TwoDigitsAt(file_date, 1) = edition_date.day
        /\ TwoDigitsAt(file_date, 3) = edition_date.month
        /\ TwoDigitsAt(file_date, 5) = edition_date.year % 100

C4_Witness ==
    /\ edition_date = [year |-> 2018, month |-> 3, day |-> 27]
    /\ file_date = "270318"

-----------------------------------------------------------------------------
(* Claims about custom_edition.py and construct_page_specifications *)

\* the position of the first character of l that is not whitespace (0: none)
FirstNonSpace(l) ==
    IF \A i \in 1..Len(l) : IsSpace(CharAt(l, i)) THEN 0
    ELSE CHOOSE i \in 1..Len(l) :
             /\ ~IsSpace(CharAt(l, i))
             /\ \A j \in 1..(i - 1) : IsSpace(CharAt(l, j))

\* the position of the last character of l that is not whitespace (0: none)
LastNonSpace(l) ==
    IF \A i \in 1..Len(l) : IsSpace(CharAt(l, i)) THEN 0
    ELSE CHOOSE i \in 1..Len(l) :
             /\ ~IsSpace(CharAt(l, i))
             /\ \A j \in (i + 1)..Len(l) : IsSpace(CharAt(l, j))

IsBlank(l) == FirstNonSpace(l) = 0

TrailingTrimmed(l) == SubSeq(l, 1, LastNonSpace(l))

\* the first non-whitespace character of l is '#'
IsCommentAnywhere(l) == ~IsBlank(l) /\ CharAt(l, FirstNonSpace(l)) = "#"

\* the first character of l is '#'
IsCommentAtColumnOne(l) == l # "" /\ CharAt(l, 1) = "#"

\* the lines of ls that are neither blank nor comments, trailing whitespace removed;
\* indentedToo: a '#' after leading whitespace makes a comment as well
RECURSIVE Survivors(_, _)
Survivors(ls, indentedToo) ==
    IF ls = <<>> THEN <<>>
    ELSE LET l == Head(ls)
             discarded == \/ IsBlank(l)
                          \/ IF indentedToo THEN IsCommentAnywhere(l)
                                            ELSE IsCommentAtColumnOne(l)
         IN  (IF discarded THEN <<>> ELSE <<TrailingTrimmed(l)>>)
                 \o Survivors(Tail(ls), indentedToo)

\* title and page lines are the survivors of the text under the given rule
FilteredAs(indentedToo) ==
    LET kept == Survivors(split_newline(custom_spec), indentedToo)
    IN  ce_pc # "start" =>
            IF kept = <<>>
            THEN ce_pc = "raised" /\ exception = "IndexError"
            ELSE title = Head(kept) /\ spec_lines = Tail(kept)

\* C7 as stated: a line is discarded iff it is blank or its first non-whitespace
\* character is '#'; the first survivor, right-trimmed, is the title and the
\* later survivors are the page lines.
C7_IndentedCommentsDiscarded == FilteredAs(TRUE)

\* C7 as amended: a line is discarded iff it is blank or its first character is
\* '#'; the first survivor, right-trimmed, is the title and the later survivors
\* are the page lines.
C7_ColumnOneCommentsDiscarded == FilteredAs(FALSE)

C7_Witness ==
    /\ custom_spec = "# note\nTest Edition \n  # note"
    /\ ce_pc = "done"
    /\ title = "Test Edition"
    /\ spec_lines = <<"  # note">>

\* the page-number token of a page line: its first run of non-whitespace
PageNumberToken(line) ==
    LET from == FirstNonSpace(line)
        to == IF \A i \in from..Len(line) : ~IsSpace(CharAt(line, i)) THEN Len(line)
              ELSE (CHOOSE i \in from..Len(line) :
                        /\ IsSpace(CharAt(line, i))
                        /\ \A j \in from..(i - 1) : ~IsSpace(CharAt(line, j))) - 1
    IN  SubSeq(line, from, to)

\* the master-name token: everything after the whitespace that follows the
\* page-number token ("" when nothing does)
MasterNameToken(line) ==
    LET after == FirstNonSpace(line) + Len(PageNumberToken(line))
        rest == SubSeq(line, after, Len(line))
    IN  IF IsBlank(rest) THEN "" ELSE SubSeq(rest, FirstNonSpace(rest), Len(rest))

\* an optional sign and one or more decimal digits
IsBase10Integer(tok) ==
    LET body == IF tok # "" /\ CharAt(tok, 1) \in {"+", "-"}
                THEN SubSeq(tok, 2, Len(tok)) ELSE tok
    IN  Len(body) > 0 /\ \A i \in 1..Len(body) : IsDigit(CharAt(body, i))

\* the verdict the specification gives a page line
Verdict(line, catalog) ==
    IF ~IsBase10Integer(PageNumberToken(line)) THEN "NotAnInteger"
    ELSE IF MasterNameToken(line) \notin DOMAIN catalog THEN "UnknownMaster"
    ELSE "accepted"

AllAccepted(ls, catalog) == \A i \in 1..Len(ls) : Verdict(ls[i], catalog) = "accepted"

\* C5: pages.json changes only when every page line was accepted, and then only
\* in the entry of the title in its Specials section.
C5_AllOrNothing ==
    [][pages_json' # pages_json =>
          /\ AllAccepted(spec_lines, masters_json)
          /\ reject = <<>>
          /\ DOMAIN pages_json' = DOMAIN pages_json
          /\ \A desk \in DOMAIN pages_json \ {"Specials"} :
                 pages_json'[desk] = pages_json[desk]
          /\ \A name \in DOMAIN pages_json["Specials"] \ {title} :
                 /\ name \in DOMAIN pages_json'["Specials"]
                 /\ pages_json'["Specials"][name] = pages_json["Specials"][name]
          /\ Len(pages_json'["Specials"][title]) = Len(spec_lines)]_vars

C5_Witness ==
    /\ ce_pc = "done"
    /\ accept # <<>>
    /\ reject # <<>>
    /\ pages_json = PagesWithSpecial

\* the entries the specification promises for the accepted page lines
ExpectedEntries(ls, catalog) ==
    [i \in 1..Len(ls) |->
        [master |-> MasterNameToken(ls[i]),
         page |-> int(PageNumberToken(ls[i])).value,
         slug |-> catalog[MasterNameToken(ls[i])].slug,
         spread |-> catalog[MasterNameToken(ls[i])].spread]]

\* C6: when every page line is accepted, the page list under the title has one
\* entry per line, in line order, with slug and spread of the catalog that
\* construct_page_specifications was given.
C6_EnrichedFromArgument ==
    (/\ ce_pc = "done"
     /\ reject = <<>>
     /\ spec_lines # <<>>
     /\ detailed_dict.raised # "not called"
     /\ \A i \in 1..Len(spec_lines) :
            MasterNameToken(spec_lines[i]) \in DOMAIN masters_dict
     /\ \A page \in AllPages(pages_json) : page.master \in DOMAIN masters_dict)
        => /\ detailed_dict.raised = ""
           /\ detailed_dict.value["Specials"][title]
                  = ExpectedEntries(spec_lines, masters_dict)

\* C8: with a title line main raises nothing, and at its end every page line is
\* in exactly one of accept and reject.
C8_NeverAborts ==
    /\ exception \in {"", "IndexError"}
    /\ ce_pc = "done" =>
           \A i \in 1..Len(spec_lines) :
               Cardinality({k \in 1..Len(accept) : accept[k][1] = spec_lines[i]}
                               \cup {0 - k : k \in {j \in 1..Len(reject) :
                                                      reject[j][1] = spec_lines[i]}})
                   = Cardinality({k \in 1..Len(spec_lines) :
                                      spec_lines[k] = spec_lines[i]})

\* the rejected entries the specification promises, in line order
RECURSIVE ExpectedRejects(_, _)
ExpectedRejects(ls, catalog) ==
    IF ls = <<>> THEN <<>>
    ELSE LET line == Head(ls)
             v == Verdict(line, catalog)
         IN  (IF v = "NotAnInteger" THEN <<<<line, NOT_AN_INTEGER>>>>
              ELSE IF v = "UnknownMaster"
              THEN <<<<line, MasterNameToken(line) \o " is not in masters.json">>>>
              ELSE <<>>)
                 \o ExpectedRejects(Tail(ls), catalog)

RECURSIVE ExpectedAccepts(_, _)
ExpectedAccepts(ls, catalog) ==
    IF ls = <<>> THEN <<>>
    ELSE LET line == Head(ls)
         IN  (IF Verdict(line, catalog) = "accepted"
              THEN <<<<line, int(PageNumberToken(line)).value, MasterNameToken(line)>>>>
              ELSE <<>>)
                 \o ExpectedAccepts(Tail(ls), catalog)

\* C9: when main has ended, reject holds one entry per failing page line, in line
\* order, with the integer check's reason first and the catalog's second, and
\* accept holds the other page lines.
C9_Verdicts ==
    (ce_pc \in {"done", "raised"} /\ exception # "IndexError") =>
        /\ reject = ExpectedRejects(spec_lines, masters_json)
        /\ accept = ExpectedAccepts(spec_lines, masters_json)

-----------------------------------------------------------------------------
(* Claims about the generation loop *)

\* the commands the specification promises for one page, in order
ExpectedCommands(page, d) ==
    <<Command("open", "", "master file"),
      Command(IF page.spread THEN "make new spread with master"
              ELSE "set applied master of page 1", "", page.master),
      Command("set contents", "Edition date", format_page_date(d, TRUE))>>
    \o (IF page.spread
        THEN <<Command("set contents", "L-Page number", str(page.page)),
               Command("set contents", "R-Page number", str(page.page + 1))>>
        ELSE <<Command("set contents", "Page number", str(page.page))>>)
    \o <<Command("override master items", "", IF page.spread THEN "2 3" ELSE "1"),
         Command("lock Furniture and save", "",
                 format_file_path(d, page.page, page.slug, page.spread)),
         Command("close saving yes", "", "")>>

RECURSIVE ExpectedScript(_, _)
ExpectedScript(pages, d) ==
    IF pages = <<>> THEN <<>>
    ELSE ExpectedCommands(Head(pages), d) \o ExpectedScript(Tail(pages), d)

IsPrefix(s, t) == Len(s) <= Len(t) /\ s = SubSeq(t, 1, Len(s))

\* the frames a saved document of the page must carry
FramesSet(doc, page, d) ==
    /\ doc.frames["Edition date"] = format_page_date(d, TRUE)
    /\ IF page.spread
       THEN /\ doc.frames["L-Page number"] = str(page.page)
            /\ doc.frames["R-Page number"] = str(page.page + 1)
       ELSE doc.frames["Page number"] = str(page.page)

====
